---- MODULE Spec2Model ----
(***************************************************************************)
(* Bambu-Notify: the print-job state machine (StateManager), the status    *)
(* callback that feeds it and the print log, the task queue, the           *)
(* notification worker with the camera frame cache, and main's cleanup.    *)
(***************************************************************************)
EXTENDS Integers, Sequences, FiniteSets, TLC

(***************************************************************************)
(* Bounds of the model.                                                    *)
(***************************************************************************)
\* number of statuses the transport delivers in one behaviour
MaxCalls == 3

\* number of statuses of a print in progress
MaxRunCalls == 4

\* number of statuses the delivery pipeline sees
MaxTaskCalls == 3

\* number of configured webhooks
MaxWebhooks == 2

(***************************************************************************)
(* Values.                                                                 *)
(***************************************************************************)
NoEvent == "None"

TransitionEvents ==
  {"print_start", "print_pause", "print_resume", "print_finish", "print_failure"}

Events == TransitionEvents \cup {"progress_report"}

\* gcode_state values; IDLE stands for every state the code does not name
GcodeStates == {"IDLE", "RUNNING", "PAUSE", "FINISH", "FAILED"}

\* Python's range(n)
Range(n) == 0 .. (n - 1)

Min(a, b) == IF a <= b THEN a ELSE b

\* the cap of the layer-based percentage
MaxPercent == 100

(***************************************************************************)
(* State.                                                                  *)
(***************************************************************************)
VARIABLES
  config,          \* the loaded configuration (fixed after start-up)
  state_manager,   \* the StateManager object
  task_queue,      \* queue.Queue of (event, status) tasks
  \* observations of the calls made so far (no influence on the program)
  calls,           \* number of process_status calls made
  ret,             \* what the last process_status call returned, and why
  status,          \* the (normalised) status of the last call
  prime,           \* the (normalised) status of the priming call
  new_job,         \* a call after priming has reset the per-job fields
  fired_layer,     \* per layer condition: progress_reports in the current job
  fired_pct,       \* per threshold: progress_reports in the current job
  same_state,      \* every status so far had the priming gcode_state
  same_status,     \* every status so far equalled the priming status
  scen,            \* position in the run 10, 26, 40, 80 of the current job
  crossed,         \* highest mc_percent a percentage report of the job fired at
  pause,           \* the RUNNING, PAUSE, RUNNING sequence under way, if any
  \* the delivery pipeline
  shutdown_event,  \* threading.Event set by the signal handler
  worker,          \* the notification worker: its position and locals
  camera_manager,  \* the CameraManager object (_is_active, _last_frame)
  lock,            \* holder of CameraManager._lock
  camera_stream,   \* the collaborator's camera stream is running
  pending,         \* frame of a callback invocation waiting for the lock
  stored,          \* observation: the frame the last callback stored, if any
  print_logger,    \* the PrintLogger object
  now,             \* the last value time.time() returned
  aborted,         \* observation: status callbacks ended by an exception
  logged,          \* observation: what the last call of the logger did
  main,            \* the main thread: its position, the cleanup steps done
  enqueued,        \* every task put on the queue, in order
  delivered,       \* every task the worker took off the queue, in order
  attempts,        \* the POST attempts made for the task in hand
  post_failed      \* some POST has failed so far

smvars == <<state_manager, calls, ret, status, prime, new_job, fired_layer,
            fired_pct, same_state, same_status, scen, crossed, pause>>

camvars == <<camera_manager, lock, camera_stream, pending, stored>>

logvars == <<print_logger, now, aborted, logged>>

vars == <<config, smvars, task_queue, shutdown_event, worker, camvars,
          logvars, main, enqueued, delivered, attempts, post_failed>>

(***************************************************************************)
(* StateManager.                                                           *)
(***************************************************************************)
StateManager_init ==
  [is_primed |-> FALSE,
   last_gcode_state |-> "IDLE",
   reported_percentages |-> {},
   reported_first_layer |-> FALSE,
   reported_second_layer |-> FALSE]

_reset_print_state_partial(sm) == [sm EXCEPT !.reported_percentages = {}]
_reset_print_state(sm) ==
  [sm EXCEPT !.reported_percentages = {},
             !.reported_first_layer = FALSE,
             !.reported_second_layer = FALSE]

\* the percentages priming marks for a RUNNING status: range(mc_percent + 1)
PrimedPercentages_skip(mc_percent) == {}
PrimedPercentages(mc_percent) == Range(mc_percent + 1)

\* the layer flags priming sets
PrimedFirstLayer(layer_num) == layer_num > 1

PrimedSecondLayer(layer_num) == layer_num > 2

prime_state(sm, st) ==
  LET running == st.gcode_state = "RUNNING" IN
  [sm EXCEPT
     !.last_gcode_state = st.gcode_state,
     !.reported_first_layer =
        IF running /\ PrimedFirstLayer(st.layer_num) THEN TRUE ELSE @,
     !.reported_second_layer =
        IF running /\ PrimedSecondLayer(st.layer_num) THEN TRUE ELSE @,
     !.reported_percentages =
        IF running THEN @ \cup PrimedPercentages(st.mc_percent) ELSE @,
     !.is_primed = TRUE]

\* what process_status returns on the priming call
PrimingReturn_transition(st) ==
  IF st.gcode_state = "RUNNING" THEN "print_start" ELSE NoEvent
PrimingReturn(st) == NoEvent

\* line 100: the status reports another state than the last one seen
StateChanged_always(last, cur) == TRUE
StateChanged(last, cur) == cur # last

\* the condition under which a state change starts a new print
IsNewPrint_any(last, cur) == cur = "RUNNING"
IsNewPrint(last, cur) == cur = "RUNNING" /\ last # "PAUSE"

\* the if/elif chain of a state change: the event before gating, and its switch
TransitionKind(last, cur) ==
  IF IsNewPrint(last, cur) THEN "print_start"
  ELSE IF cur = "FINISH" THEN "print_finish"
  ELSE IF cur = "FAILED" THEN "print_failure"
  ELSE IF cur = "PAUSE" THEN "print_pause"
  ELSE IF last = "PAUSE" /\ cur = "RUNNING" THEN "print_resume"
  ELSE NoEvent

Switch_ignored(cfg, kind) == kind # NoEvent
Switch(cfg, kind) ==
  CASE kind = "print_start" -> cfg.report_start
    [] kind = "print_finish" -> cfg.report_finish
    [] kind = "print_failure" -> cfg.report_failure
    [] kind = "print_pause" -> cfg.report_pause
    [] kind = "print_resume" -> cfg.report_resume
    [] OTHER -> FALSE

TransitionEvent(cfg, last, cur) ==
  LET kind == TransitionKind(last, cur) IN
  IF Switch(cfg, kind) THEN kind ELSE NoEvent

\* last_gcode_state after a call that saw a state change
UpdatedState_stale(last, cur, event) == last
UpdatedState(last, cur, event) == cur

\* the percentages a notified threshold p marks: range(p + 1)
MarkReported_only(p) == {p}
MarkReported_none(p) == {}
MarkReported(p) == Range(p + 1)

\* index of the first configured threshold that is due, 0 if none is
FirstDue(thresholds, reported, mc_percent) ==
  LET due == {i \in 1 .. Len(thresholds) :
                thresholds[i] \notin reported /\ mc_percent >= thresholds[i]}
  IN IF due = {} THEN 0 ELSE CHOOSE i \in due : \A j \in due : i <= j

\* the progress-based checks of process_status (lines 124-141)
ProgressChecks(cfg, sm, st) ==
  IF cfg.report_first_layer /\ ~sm.reported_first_layer /\ st.layer_num > 1
  THEN [sm |-> [sm EXCEPT !.reported_first_layer = TRUE],
        event |-> "progress_report", cause |-> "first_layer", threshold |-> -1]
  ELSE IF cfg.report_second_layer /\ ~sm.reported_second_layer /\ st.layer_num > 2
  THEN [sm |-> [sm EXCEPT !.reported_second_layer = TRUE],
        event |-> "progress_report", cause |-> "second_layer", threshold |-> -1]
  ELSE LET i == FirstDue(cfg.report_percentages, sm.reported_percentages,
                         st.mc_percent)
       IN IF i # 0
          THEN LET p == cfg.report_percentages[i] IN
               [sm |-> [sm EXCEPT !.reported_percentages = @ \cup MarkReported(p)],
                event |-> "progress_report", cause |-> "percentage",
                threshold |-> p]
          ELSE [sm |-> sm, event |-> NoEvent, cause |-> "none", threshold |-> -1]

\* StateManager.process_status: the object after the call and what it returns
process_status(cfg, sm, st) ==
  IF ~sm.is_primed
  THEN [sm |-> prime_state(sm, st), event |-> PrimingReturn(st),
        cause |-> "priming", threshold |-> -1]
  ELSE
    LET last == sm.last_gcode_state
        cur == st.gcode_state
        changed == StateChanged(last, cur)
        event == IF changed THEN TransitionEvent(cfg, last, cur) ELSE NoEvent
        sm1 == IF changed /\ IsNewPrint(last, cur)
               THEN _reset_print_state(sm) ELSE sm
        sm2 == IF changed
               THEN [sm1 EXCEPT !.last_gcode_state = UpdatedState(last, cur, event)]
               ELSE sm1
    IN IF event # NoEvent
       THEN [sm |-> sm2, event |-> event, cause |-> "transition", threshold |-> -1]
       ELSE IF cur # "RUNNING"
       THEN [sm |-> sm2, event |-> NoEvent, cause |-> "none", threshold |-> -1]
       ELSE ProgressChecks(cfg, sm2, st)

(***************************************************************************)
(* printer_status_callback.                                                *)
(***************************************************************************)
\* the layer-based percentage: min(int(layer_num / total_layer_num * 100), 100).
\* The statuses of the model have a total_layer_num for which the float
\* quotient is exact, so that int() of it is the integer quotient.
LayerPercent(layer_num, total_layer_num) ==
  IF total_layer_num > 0
  THEN Min((layer_num * 100) \div total_layer_num, MaxPercent)
  ELSE 0

Normalise(cfg, raw) ==
  [gcode_state |-> raw.gcode_state,
   layer_num |-> raw.layer_num,
   mc_percent |-> IF cfg.percentage_mode = "layer"
                  THEN LayerPercent(raw.layer_num, raw.total_layer_num)
                  ELSE raw.mc_percent]

\* the run of mc_percent values of the fourth testable property
Scenario == <<10, 26, 40, 80>>

\* position in Scenario after a call: k when the RUNNING statuses of the
\* current job are exactly its first k values, -1 when they are not
ScenAfter(sm, st, old) ==
  LET reset == ~sm.is_primed
               \/ (st.gcode_state # sm.last_gcode_state
                   /\ IsNewPrint(sm.last_gcode_state, st.gcode_state))
  IN IF st.gcode_state = "PAUSE" THEN -1
     ELSE IF st.gcode_state # "RUNNING" THEN 0
     ELSE IF reset THEN (IF st.mc_percent = Scenario[1] THEN 1 ELSE -1)
     ELSE IF old >= 1 /\ old < Len(Scenario) /\ st.mc_percent = Scenario[old + 1]
     THEN old + 1
     ELSE -1

\* the per-job tracking fields
Tracking(sm) ==
  [reported_percentages |-> sm.reported_percentages,
   reported_first_layer |-> sm.reported_first_layer,
   reported_second_layer |-> sm.reported_second_layer]

NoPause == [phase |-> "none", tracking |-> Tracking(StateManager_init),
            event |-> NoEvent]

\* the RUNNING, PAUSE, RUNNING sequence after a call: "paused" from the call
\* that sees RUNNING turn to PAUSE (with the tracking fields before it and the
\* event it returned), through repeated PAUSE statuses, "resumed" by the call
\* that sees RUNNING again
PauseAfter(sm, st, event, old) ==
  IF sm.is_primed /\ sm.last_gcode_state = "RUNNING" /\ st.gcode_state = "PAUSE"
  THEN [phase |-> "paused", tracking |-> Tracking(sm), event |-> event]
  ELSE IF old.phase = "paused" /\ st.gcode_state = "PAUSE" THEN old
  ELSE IF old.phase = "paused" /\ st.gcode_state = "RUNNING"
  THEN [old EXCEPT !.phase = "resumed"]
  ELSE NoPause

Thresholds(cfg) == {cfg.report_percentages[i] : i \in 1 .. Len(cfg.report_percentages)}

\* a task: the event and the status object (named by the call that made it)
Task(event, id) == [event |-> event, status |-> id]

NoTask == Task(NoEvent, 0)

\* queue.Queue: put at the tail, get from the head
QueuePut(q, task) == Append(q, task)

(***************************************************************************)
(* PrintLogger.                                                            *)
(***************************************************************************)
\* the default of log_interval_seconds, in ticks of the model's clock
log_interval == 1

\* time.time() at start-up: the epoch lies more than one interval back
Epoch == 1

\* PrintLogger.__init__: print_log disabled returns at line 263, before
\* is_logging, log_file and last_log_time are assigned (attrs); a log directory
\* that cannot be made switches logging off
PrintLogger_init(cfg, made) ==
  [attrs |-> cfg.print_log_enabled,
   enabled |-> cfg.print_log_enabled /\ made,
   is_logging |-> FALSE,
   log_file |-> FALSE,
   last_log_time |-> 0]

\* start_logging: open() succeeds or raises the IOError caught at line 312
start_logging(pl, open_ok) ==
  IF pl.is_logging THEN pl
  ELSE IF open_ok
  THEN [pl EXCEPT !.log_file = TRUE, !.is_logging = TRUE, !.last_log_time = 0]
  ELSE pl

stop_logging(pl) ==
  IF ~pl.is_logging \/ ~pl.log_file THEN pl
  ELSE [pl EXCEPT !.log_file = FALSE, !.is_logging = FALSE]

\* _write_log: the write of line 355 raises when the entry cannot be written
_write_log(pl, write_ok) ==
  [raised |-> pl.is_logging /\ pl.log_file /\ ~write_ok]

\* line 344: an entry is due
Due_always(t, last, interval) == TRUE
Due(t, last, interval) == t - last >= interval

\* PrintLogger.process_status at clock reading t: the logger after the call,
\* whether an exception left it, the clock as last read, the entries written
\* and whether the open of start_logging failed
PrintLogger_process_status(pl, st, clock, t, open_ok, write_ok) ==
  IF ~pl.enabled
  THEN [pl |-> pl, raised |-> FALSE, now |-> clock, wrote |-> 0,
        open_failed |-> FALSE]
  ELSE
    LET is_printing == st.gcode_state = "RUNNING"
        is_finished == st.gcode_state \in {"FINISH", "FAILED"}
        final == ~(is_printing /\ ~pl.is_logging) /\ is_finished /\ pl.is_logging
        raised1 == final /\ _write_log(pl, write_ok).raised
        p1 == IF is_printing /\ ~pl.is_logging THEN start_logging(pl, open_ok)
              ELSE IF final /\ ~raised1 THEN stop_logging(pl)
              ELSE pl
        due == p1.is_logging /\ Due(t, p1.last_log_time, log_interval)
        raised2 == ~raised1 /\ due /\ _write_log(p1, write_ok).raised
    IN [pl |-> IF due /\ ~raised1 /\ ~raised2
               THEN [p1 EXCEPT !.last_log_time = t] ELSE p1,
        raised |-> raised1 \/ raised2,
        now |-> IF p1.is_logging /\ ~raised1 THEN t ELSE clock,
        wrote |-> (IF final /\ ~raised1 THEN 1 ELSE 0)
                  + (IF due /\ ~raised1 /\ ~raised2 THEN 1 ELSE 0),
        open_failed |-> is_printing /\ ~pl.is_logging /\ ~open_ok]

\* the observation of a call of the logger: the status's gcode_state, the
\* entries the call wrote, the failures it met, and the clock at the last
\* entry written for a RUNNING status to the file now open (-1: none)
NoLogged ==
  [gcode_state |-> "IDLE", wrote |-> 0, open_failed |-> FALSE,
   write_failed |-> FALSE, entry_time |-> -1]

LoggedAfter(pl, st, lg, old) ==
  IF ~pl.enabled THEN old
  ELSE [gcode_state |-> st.gcode_state,
        wrote |-> lg.wrote,
        open_failed |-> lg.open_failed,
        write_failed |-> lg.raised,
        entry_time |->
          IF st.gcode_state = "RUNNING" /\ lg.wrote > 0 THEN lg.now
          ELSE IF ~pl.is_logging /\ lg.pl.is_logging THEN -1
          ELSE old.entry_time]

\* what the file system and the clock answer during one call of the logger
PrintLogIO(pl) ==
  IF pl.enabled
  THEN [t : {now, now + 1}, open_ok : BOOLEAN, write_ok : BOOLEAN]
  ELSE {[t |-> now, open_ok |-> TRUE, write_ok |-> TRUE]}

\* lines 407-410, with the observations of the call
StateManagerCall(st) ==
  LET r == process_status(config, state_manager, st)
      reset == state_manager.is_primed
               /\ st.gcode_state # state_manager.last_gcode_state
               /\ IsNewPrint(state_manager.last_gcode_state, st.gcode_state)
      fl0 == IF reset THEN [c \in DOMAIN fired_layer |-> 0] ELSE fired_layer
      fp0 == IF reset THEN [p \in DOMAIN fired_pct |-> 0] ELSE fired_pct
  IN /\ state_manager' = r.sm
     /\ task_queue' = IF r.event # NoEvent
                      THEN QueuePut(task_queue, Task(r.event, calls + 1))
                      ELSE task_queue
     /\ enqueued' = IF r.event # NoEvent
                    THEN Append(enqueued, Task(r.event, calls + 1))
                    ELSE enqueued
     /\ calls' = calls + 1
     /\ ret' = [event |-> r.event, cause |-> r.cause, threshold |-> r.threshold]
     /\ status' = st
     /\ prime' = IF state_manager.is_primed THEN prime ELSE st
     /\ new_job' = (new_job \/ reset)
     /\ fired_layer' = IF r.cause \in DOMAIN fired_layer
                       THEN [fl0 EXCEPT ![r.cause] = @ + 1] ELSE fl0
     /\ fired_pct' = IF r.cause = "percentage" /\ r.threshold \in DOMAIN fired_pct
                     THEN [fp0 EXCEPT ![r.threshold] = @ + 1] ELSE fp0
     /\ same_state' = IF state_manager.is_primed
                      THEN same_state /\ st.gcode_state = prime.gcode_state
                      ELSE TRUE
     /\ same_status' = IF state_manager.is_primed
                       THEN same_status /\ st = prime
                       ELSE TRUE
     /\ scen' = ScenAfter(state_manager, st, scen)
     /\ crossed' = LET c0 == IF reset THEN -1 ELSE crossed IN
                    IF r.cause = "percentage" /\ st.mc_percent > c0
                    THEN st.mc_percent ELSE c0
     /\ pause' = PauseAfter(state_manager, st, r.event, pause)

\* printer_status_callback: normalise, log (line 405), then the state machine;
\* an exception of the logger leaves the callback before line 407
printer_status_callback(raw) ==
  \E io \in PrintLogIO(print_logger) :
    LET st == Normalise(config, raw)
        lg == PrintLogger_process_status(print_logger, st, now,
                                         io.t, io.open_ok, io.write_ok)
    IN /\ print_logger' = lg.pl
       /\ now' = lg.now
       /\ logged' = LoggedAfter(print_logger, st, lg, logged)
       /\ IF lg.raised
          THEN /\ aborted' = aborted + 1
               /\ UNCHANGED <<smvars, task_queue, enqueued>>
          ELSE /\ StateManagerCall(st)
               /\ UNCHANGED aborted
       /\ UNCHANGED <<config, main, shutdown_event, worker, camvars, delivered,
                      attempts, post_failed>>

(***************************************************************************)
(* CameraManager.                                                          *)
(***************************************************************************)
\* the empty frame b""
NoFrame == 0

\* frames the stream delivers
Frames == {1, 2}

\* CameraManager.get_frame's default wait_seconds
wait_seconds == 5

CameraManager_init == [_is_active |-> FALSE, _last_frame |-> NoFrame]

\* the collaborator's stream thread calls _save_frame_callback(frame): the
\* call waits at line 153 for the lock.  stop_camera_stream does not take
\* back a call already made.
FrameArrives ==
  /\ camera_stream
  /\ pending = NoFrame
  /\ \E frame \in Frames : pending' = frame
  /\ UNCHANGED <<config, logvars, main, smvars, task_queue, shutdown_event,
                 worker, camera_manager, lock, camera_stream, stored,
                 enqueued, delivered, attempts, post_failed>>

\* line 154: what _last_frame holds after the assignment
StoredFrame_first(old, frame) == IF old = NoFrame THEN frame ELSE old
StoredFrame(old, frame) == frame

\* _save_frame_callback, lines 153-154: store the frame under the lock
_save_frame_callback ==
  /\ pending # NoFrame
  /\ lock = "free"
  /\ camera_manager' =
       [camera_manager EXCEPT !._last_frame = StoredFrame(@, pending)]
  /\ stored' = pending
  /\ pending' = NoFrame
  /\ UNCHANGED <<config, logvars, main, smvars, task_queue, shutdown_event,
                 worker, lock, camera_stream, enqueued, delivered, attempts,
                 post_failed>>

\* get_frame, line 178: the unlocked read of _is_active
get_frame ==
  /\ worker.pc = "get_frame"
  /\ worker' = [worker EXCEPT
                  !.pc = IF camera_manager._is_active THEN "poll" ELSE "start_lock",
                  !.polls = 0]
  /\ UNCHANGED <<config, logvars, main, smvars, task_queue, shutdown_event, camvars,
                 enqueued, delivered, attempts, post_failed>>

\* start(), lines 157-159: take the lock, return if the stream is active
start_lock ==
  /\ worker.pc = "start_lock"
  /\ lock = "free"
  /\ IF camera_manager._is_active
     THEN /\ worker' = [worker EXCEPT !.pc = "poll"]
          /\ UNCHANGED lock
     ELSE /\ worker' = [worker EXCEPT !.pc = "start_call"]
          /\ lock' = "worker"
  /\ UNCHANGED <<config, logvars, main, smvars, task_queue, shutdown_event, camera_manager,
                 camera_stream, pending, stored, enqueued, delivered, attempts,
                 post_failed>>

\* start(), lines 161-162: the collaborator starts the stream, or raises; the
\* exception leaves get_frame and the worker's try block, which catches
\* queue.Empty alone
start_call ==
  /\ worker.pc = "start_call"
  /\ \E raised \in BOOLEAN :
       IF raised
       THEN /\ worker' = [worker EXCEPT !.pc = "crashed"]
            /\ UNCHANGED <<camera_manager, camera_stream>>
       ELSE /\ worker' = [worker EXCEPT !.pc = "poll"]
            /\ camera_manager' = [camera_manager EXCEPT !._is_active = TRUE]
            /\ camera_stream' = TRUE
  /\ lock' = "free"
  /\ UNCHANGED <<pending, stored>>
  /\ UNCHANGED <<config, logvars, main, smvars, task_queue, shutdown_event,
                 enqueued, delivered, attempts, post_failed>>

\* get_frame, lines 182-190: one poll of the cached frame under the lock
poll_frame ==
  /\ worker.pc = "poll"
  /\ lock = "free"
  /\ IF camera_manager._last_frame # NoFrame
     THEN worker' = [worker EXCEPT !.pc = "send",
                                   !.frame = camera_manager._last_frame]
     ELSE IF worker.polls + 1 >= wait_seconds
     THEN worker' = [worker EXCEPT !.pc = "send", !.frame = NoFrame]
     ELSE worker' = [worker EXCEPT !.polls = @ + 1]
  /\ UNCHANGED <<config, logvars, main, smvars, task_queue, shutdown_event, camvars,
                 enqueued, delivered, attempts, post_failed>>

\* stop(), lines 166-167: under the lock, return when the stream is not active
StopReturns_never(cm) == FALSE
StopReturns(cm) == ~cm._is_active

\* stop(), lines 165-167, called by the worker after a finished print
stop_lock ==
  /\ worker.pc = "stop_lock"
  /\ lock = "free"
  /\ IF StopReturns(camera_manager)
     THEN /\ worker' = [worker EXCEPT !.pc = "loop", !.task = NoTask]
          /\ UNCHANGED lock
     ELSE /\ worker' = [worker EXCEPT !.pc = "stop_call"]
          /\ lock' = "worker"
  /\ UNCHANGED <<config, logvars, main, smvars, task_queue, shutdown_event, camera_manager,
                 camera_stream, pending, stored, enqueued, delivered, attempts,
                 post_failed>>

\* stop(), lines 169-171: stop the stream, clear the frame, release
stop_call ==
  /\ worker.pc = "stop_call"
  /\ camera_stream' = FALSE
  /\ camera_manager' = [_is_active |-> FALSE, _last_frame |-> NoFrame]
  /\ stored' = NoFrame
  /\ lock' = "free"
  /\ worker' = [worker EXCEPT !.pc = "loop", !.task = NoTask]
  /\ UNCHANGED pending
  /\ UNCHANGED <<config, logvars, main, smvars, task_queue, shutdown_event,
                 enqueued, delivered, attempts, post_failed>>

(***************************************************************************)
(* Notifier.send.                                                          *)
(***************************************************************************)
\* how a POST ends: 2xx, or a RequestException (raise_for_status, network)
PostOutcomes == {"ok", "error"}

\* lines 218-233: no webhooks, or a template that does not render, end the
\* call before any POST
send_render ==
  /\ worker.pc = "send"
  /\ IF config.webhooks = 0
     THEN worker' = [worker EXCEPT !.pc = "after_send"]
     ELSE \E rendered \in BOOLEAN :
            worker' = IF rendered
                      THEN [worker EXCEPT !.pc = "post", !.i = 1,
                                          !.rendered = TRUE]
                      ELSE [worker EXCEPT !.pc = "after_send"]
  /\ UNCHANGED <<config, logvars, main, smvars, task_queue, shutdown_event, camvars,
                 enqueued, delivered, attempts, post_failed>>

\* the webhook the loop of line 235 turns to after an attempt at webhook i
AfterAttempt_abort(i, outcome, n) == IF outcome = "ok" THEN i + 1 ELSE n + 1
AfterAttempt(i, outcome, n) == i + 1

\* lines 236-250: one POST to webhook i; a RequestException is logged
send_post ==
  /\ worker.pc = "post"
  /\ \E outcome \in PostOutcomes :
       LET next == AfterAttempt(worker.i, outcome, config.webhooks) IN
       /\ attempts' = Append(attempts,
                             [webhook |-> worker.i,
                              outcome |-> outcome,
                              attachment |-> worker.frame # NoFrame])
       /\ post_failed' = (post_failed \/ outcome # "ok")
       /\ worker' = IF next > config.webhooks
                    THEN [worker EXCEPT !.pc = "after_send", !.i = next]
                    ELSE [worker EXCEPT !.i = next]
  /\ UNCHANGED <<config, logvars, main, smvars, task_queue, shutdown_event, camvars,
                 enqueued, delivered>>

(***************************************************************************)
(* notification_worker.                                                    *)
(***************************************************************************)
Worker_init ==
  [pc |-> "loop", task |-> NoTask, frame |-> NoFrame, polls |-> 0, i |-> 0,
   rendered |-> FALSE]

\* queue.Queue.get: the task at the head, and the queue without it
QueueGet_last(q) == [task |-> q[Len(q)], rest |-> SubSeq(q, 1, Len(q) - 1)]
QueueGet(q) == [task |-> Head(q), rest |-> Tail(q)]

\* line 413: the loop condition
worker_loop ==
  /\ worker.pc = "loop"
  /\ worker' = [worker EXCEPT !.pc = IF shutdown_event THEN "exited" ELSE "get"]
  /\ UNCHANGED <<config, logvars, main, smvars, task_queue, shutdown_event, camvars,
                 enqueued, delivered, attempts, post_failed>>

\* lines 415-419: a task is taken off the queue
worker_get ==
  /\ worker.pc = "get"
  /\ task_queue # <<>>
  /\ LET g == QueueGet(task_queue) IN
       /\ task_queue' = g.rest
       /\ delivered' = Append(delivered, g.task)
       /\ worker' = [pc |-> IF config.camera_enabled THEN "get_frame" ELSE "send",
                     task |-> g.task, frame |-> NoFrame, polls |-> 0, i |-> 0,
                     rendered |-> FALSE]
  /\ attempts' = <<>>
  /\ UNCHANGED <<config, logvars, main, smvars, shutdown_event, camvars, enqueued, post_failed>>

\* lines 428-429: the get timed out on an empty queue
worker_empty ==
  /\ worker.pc = "get"
  /\ task_queue = <<>>
  /\ worker' = [worker EXCEPT !.pc = "loop"]
  /\ UNCHANGED <<config, logvars, main, smvars, task_queue, shutdown_event, camvars,
                 enqueued, delivered, attempts, post_failed>>

\* line 426: the events after whose delivery the camera is stopped
StopsCamera_never(event) == FALSE
StopsCamera(event) == event \in {"print_finish", "print_failure"}

\* lines 423-427: after send, stop the camera for a finished print
worker_after_send ==
  /\ worker.pc = "after_send"
  /\ worker' = IF StopsCamera(worker.task.event)
               THEN [worker EXCEPT !.pc = "stop_lock"]
               ELSE [worker EXCEPT !.pc = "loop", !.task = NoTask]
  /\ UNCHANGED <<config, logvars, main, smvars, task_queue, shutdown_event, camvars,
                 enqueued, delivered, attempts, post_failed>>

\* lines 436-438
signal_handler ==
  /\ ~shutdown_event
  /\ shutdown_event' = TRUE
  /\ UNCHANGED <<config, logvars, main, smvars, task_queue, worker, camvars,
                 enqueued, delivered, attempts, post_failed>>

(***************************************************************************)
(* main: the wait for the shutdown signal and the finally block.           *)
(***************************************************************************)
Main_init == [pc |-> "wait", cleanup |-> <<>>]

\* line 451: shutdown_event.wait() returns once the event is set
main_wait ==
  /\ main.pc = "wait"
  /\ shutdown_event
  /\ main' = [main EXCEPT !.pc = "join"]
  /\ UNCHANGED <<config, logvars, smvars, task_queue, shutdown_event, worker,
                 camvars, enqueued, delivered, attempts, post_failed>>

\* lines 455-456: join returns when the worker has ended or after 2 seconds,
\* wherever the worker then is
main_join ==
  /\ main.pc = "join"
  /\ main' = [main EXCEPT !.pc = "stop_lock"]
  /\ UNCHANGED <<config, logvars, smvars, task_queue, shutdown_event, worker,
                 camvars, enqueued, delivered, attempts, post_failed>>

\* line 458, camera_manager.stop(), lines 165-167
main_stop_lock ==
  /\ main.pc = "stop_lock"
  /\ lock = "free"
  /\ IF StopReturns(camera_manager)
     THEN /\ main' = [pc |-> "stop_logging",
                      cleanup |-> Append(main.cleanup, "camera_manager.stop")]
          /\ UNCHANGED lock
     ELSE /\ main' = [main EXCEPT !.pc = "stop_call"]
          /\ lock' = "main"
  /\ UNCHANGED <<config, logvars, smvars, task_queue, shutdown_event, worker,
                 camera_manager, camera_stream, pending, stored,
                 enqueued, delivered, attempts, post_failed>>

\* camera_manager.stop(), lines 169-171
main_stop_call ==
  /\ main.pc = "stop_call"
  /\ camera_stream' = FALSE
  /\ camera_manager' = [_is_active |-> FALSE, _last_frame |-> NoFrame]
  /\ stored' = NoFrame
  /\ lock' = "free"
  /\ main' = [pc |-> "stop_logging",
              cleanup |-> Append(main.cleanup, "camera_manager.stop")]
  /\ UNCHANGED <<config, logvars, smvars, task_queue, shutdown_event, worker,
                 pending, enqueued, delivered, attempts, post_failed>>

\* line 459, print_logger.stop_logging(): line 317 reads is_logging, which
\* __init__ never assigned when print_log is disabled; the AttributeError
\* leaves the finally block
main_stop_logging ==
  /\ main.pc = "stop_logging"
  /\ IF ~print_logger.attrs
     THEN /\ main' = [main EXCEPT !.pc = "crashed"]
          /\ UNCHANGED print_logger
     ELSE /\ print_logger' = stop_logging(print_logger)
          /\ main' = [pc |-> "stop_watch",
                      cleanup |-> Append(main.cleanup, "print_logger.stop_logging")]
  /\ UNCHANGED <<config, now, aborted, logged, smvars, task_queue, shutdown_event,
                 worker, camvars, enqueued, delivered, attempts, post_failed>>

\* line 460
main_stop_watch ==
  /\ main.pc = "stop_watch"
  /\ main' = [pc |-> "done",
              cleanup |-> Append(main.cleanup, "client.stop_watch_client")]
  /\ UNCHANGED <<config, logvars, smvars, task_queue, shutdown_event, worker,
                 camvars, enqueued, delivered, attempts, post_failed>>

(***************************************************************************)
(* Configurations and statuses.                                            *)
(***************************************************************************)
NoStatus == [gcode_state |-> "IDLE", layer_num |-> 0, mc_percent |-> 0]

InitWith(cfgs) ==
  /\ config \in cfgs
  /\ state_manager = StateManager_init
  /\ task_queue = <<>>
  /\ calls = 0
  /\ ret = [event |-> NoEvent, cause |-> "none", threshold |-> -1]
  /\ status = NoStatus
  /\ prime = NoStatus
  /\ new_job = FALSE
  /\ fired_layer = [c \in {"first_layer", "second_layer"} |-> 0]
  /\ fired_pct = [p \in Thresholds(config) |-> 0]
  /\ same_state = TRUE
  /\ same_status = TRUE
  /\ scen = 0
  /\ crossed = -1
  /\ pause = NoPause
  /\ post_failed = FALSE
  /\ shutdown_event = FALSE
  /\ worker = Worker_init
  /\ camera_manager = CameraManager_init
  /\ lock = "free"
  /\ camera_stream = FALSE
  /\ pending = NoFrame
  /\ stored = NoFrame
  /\ print_logger \in {PrintLogger_init(config, made) : made \in BOOLEAN}
  /\ now = Epoch
  /\ aborted = 0
  /\ logged = NoLogged
  /\ main = Main_init
  /\ enqueued = <<>>
  /\ delivered = <<>>
  /\ attempts = <<>>

Raw(g, l, t, p) ==
  [gcode_state |-> g, layer_num |-> l, total_layer_num |-> t, mc_percent |-> p]

(***************************************************************************)
(* The ingestion path under every combination of the event switches.       *)
(***************************************************************************)
ConfigsTransitions ==
  [report_start : BOOLEAN, report_finish : BOOLEAN, report_failure : BOOLEAN,
   report_pause : BOOLEAN, report_resume : BOOLEAN,
   report_first_layer : {TRUE}, report_second_layer : {TRUE},
   report_percentages : {<<>>, <<25, 50, 75>>},
   percentage_mode : {"time"},
   camera_enabled : {TRUE}, webhooks : {1},
   print_log_enabled : {FALSE}]

StatusesTransitions ==
  {Raw(g, 1, 4, 10) : g \in GcodeStates} \cup {Raw(g, 3, 4, 80) : g \in GcodeStates}

InitTransitions == InitWith(ConfigsTransitions)

StatusArrives ==
  /\ calls < MaxCalls
  /\ \E raw \in StatusesTransitions : printer_status_callback(raw)

NextTransitions == StatusArrives

SpecTransitions == InitTransitions /\ [][NextTransitions]_vars

(***************************************************************************)
(* The ingestion path of a print in progress: jittering layers and         *)
(* percentages under every progress configuration.                         *)
(***************************************************************************)
ConfigsProgress ==
  [report_start : BOOLEAN, report_finish : {TRUE}, report_failure : {TRUE},
   report_pause : {TRUE}, report_resume : BOOLEAN,
   report_first_layer : BOOLEAN, report_second_layer : BOOLEAN,
   report_percentages : {<<25, 50, 75>>, <<75, 25>>, <<50, 0>>},
   percentage_mode : {"time", "layer"},
   camera_enabled : {TRUE}, webhooks : {1},
   print_log_enabled : {FALSE}]

StatusesProgress ==
  {Raw("RUNNING", 1, 4, 10), Raw("RUNNING", 2, 4, 26), Raw("RUNNING", 3, 4, 40),
   Raw("RUNNING", 3, 4, 80), Raw("RUNNING", 2, 0, 80),
   Raw("PAUSE", 2, 4, 26), Raw("IDLE", 0, 0, 0)}

InitProgress == InitWith(ConfigsProgress)

ProgressArrives ==
  /\ calls < MaxRunCalls
  /\ \E raw \in StatusesProgress : printer_status_callback(raw)

NextProgress == ProgressArrives

SpecProgress == InitProgress /\ [][NextProgress]_vars

(***************************************************************************)
(* The delivery pipeline: the status callback, the worker, the camera      *)
(* stream and the shutdown signal, interleaved.                            *)
(***************************************************************************)
\* every number of webhooks without the camera, one webhook with it
ConfigsDelivery ==
  {c \in
  [report_start : {TRUE}, report_finish : {TRUE}, report_failure : {TRUE},
   report_pause : {TRUE}, report_resume : {TRUE},
   report_first_layer : {FALSE}, report_second_layer : {FALSE},
   report_percentages : {<<50>>},
   percentage_mode : {"time"},
   camera_enabled : BOOLEAN, webhooks : 0 .. MaxWebhooks,
   print_log_enabled : {FALSE}]
   : c.camera_enabled => c.webhooks = 1}

StatusesDelivery ==
  {Raw("RUNNING", 3, 4, 80), Raw("PAUSE", 3, 4, 80), Raw("FINISH", 3, 4, 100)}

InitDelivery == InitWith(ConfigsDelivery)

TaskArrives ==
  /\ calls < MaxTaskCalls
  /\ \E raw \in StatusesDelivery : printer_status_callback(raw)

NextDelivery ==
  \/ TaskArrives
  \/ worker_loop
  \/ worker_get
  \/ worker_empty
  \/ get_frame
  \/ start_lock
  \/ start_call
  \/ poll_frame
  \/ send_render
  \/ send_post
  \/ worker_after_send
  \/ stop_lock
  \/ stop_call
  \/ FrameArrives
  \/ _save_frame_callback
  \/ signal_handler

SpecDelivery == InitDelivery /\ [][NextDelivery]_vars

(***************************************************************************)
(* The print log: the status callback with logging enabled, the file       *)
(* system failing or not.                                                  *)
(***************************************************************************)
\* number of statuses the logging callback sees
MaxLogCalls == 4

ConfigsLogging ==
  [report_start : {TRUE}, report_finish : {TRUE}, report_failure : {TRUE},
   report_pause : {TRUE}, report_resume : {TRUE},
   report_first_layer : {FALSE}, report_second_layer : {FALSE},
   report_percentages : {<<50>>},
   percentage_mode : {"time"},
   camera_enabled : {TRUE}, webhooks : {1},
   print_log_enabled : {TRUE}]

StatusesLogging ==
  {Raw("IDLE", 0, 0, 0), Raw("RUNNING", 1, 4, 10), Raw("RUNNING", 3, 4, 80),
   Raw("PAUSE", 3, 4, 80), Raw("FINISH", 3, 4, 100), Raw("FAILED", 3, 4, 80)}

InitLogging == InitWith(ConfigsLogging)

LogStatusArrives ==
  /\ calls + aborted < MaxLogCalls
  /\ \E raw \in StatusesLogging : printer_status_callback(raw)

NextLogging == LogStatusArrives

SpecLogging == InitLogging /\ [][NextLogging]_vars

(***************************************************************************)
(* Shutdown: the signal, the worker and the stream still running, and      *)
(* main's cleanup.  No webhook is configured: Notifier.send returns at     *)
(* line 220.                                                               *)
(***************************************************************************)
\* number of statuses that arrive before and during the shutdown
MaxShutdownCalls == 2

ConfigsShutdown ==
  [report_start : {TRUE}, report_finish : {TRUE}, report_failure : {TRUE},
   report_pause : {TRUE}, report_resume : {TRUE},
   report_first_layer : {FALSE}, report_second_layer : {FALSE},
   report_percentages : {<<50>>},
   percentage_mode : {"time"},
   camera_enabled : BOOLEAN, webhooks : {0},
   print_log_enabled : BOOLEAN]

StatusesShutdown == {Raw("RUNNING", 3, 4, 80), Raw("FINISH", 3, 4, 100)}

InitShutdown == InitWith(ConfigsShutdown)

ShutdownStatusArrives ==
  /\ calls + aborted < MaxShutdownCalls
  /\ \E raw \in StatusesShutdown : printer_status_callback(raw)

NextShutdown ==
  \/ ShutdownStatusArrives
  \/ worker_loop
  \/ worker_get
  \/ worker_empty
  \/ get_frame
  \/ start_lock
  \/ start_call
  \/ poll_frame
  \/ send_render
  \/ worker_after_send
  \/ stop_lock
  \/ stop_call
  \/ FrameArrives
  \/ _save_frame_callback
  \/ signal_handler
  \/ main_wait
  \/ main_join
  \/ main_stop_lock
  \/ main_stop_call
  \/ main_stop_logging
  \/ main_stop_watch

SpecShutdown == InitShutdown /\ [][NextShutdown]_vars

(***************************************************************************)
(* Properties.                                                             *)
(***************************************************************************)
IsPrefix(a, b) == Len(a) <= Len(b) /\ SubSeq(b, 1, Len(a)) = a

\* the call just made reset the per-job fields (read in a step of the callback)
ResetBy(st) ==
  /\ state_manager.is_primed
  /\ st.gcode_state # state_manager.last_gcode_state
  /\ IsNewPrint(state_manager.last_gcode_state, st.gcode_state)

\* C1: the first process_status call ever made returns no event, whatever the
\* first status and the configuration, and puts nothing on the queue.
C1_PrimingEmitsNothing ==
  calls = 1 =>
    /\ state_manager.is_primed
    /\ ret.event = NoEvent
    /\ enqueued = <<>>
    /\ task_queue = <<>>

\* C1: a RUNNING status has primed the state machine.
C1_Witness ==
  /\ calls = 1
  /\ prime.gcode_state = "RUNNING"
  /\ state_manager.reported_percentages # {}

\* C2: after a priming status RUNNING with layer L and percentage P, as long
\* as no new job starts, no progress_report is caused by the first layer when
\* L > 1, by the second layer when L > 2, or by a threshold <= P.
C2_PrimedProgressNotReplayed ==
  (calls >= 1 /\ prime.gcode_state = "RUNNING" /\ ~new_job) =>
    /\ prime.layer_num > 1 => fired_layer["first_layer"] = 0
    /\ prime.layer_num > 2 => fired_layer["second_layer"] = 0
    /\ \A p \in DOMAIN fired_pct : p <= prime.mc_percent => fired_pct[p] = 0

\* C2: primed in layer 3 at 40%, the job went on to report the 50% threshold,
\* with first layer, second layer and the 25% threshold configured.
C2_Witness ==
  /\ prime = [gcode_state |-> "RUNNING", layer_num |-> 3, mc_percent |-> 40]
  /\ ~new_job
  /\ config.report_first_layer /\ config.report_second_layer
  /\ config.report_percentages = <<25, 50, 75>>
  /\ calls >= 3
  /\ fired_pct[50] = 1

\* C3 as stated: once a percentage report has fired at mc_percent = m, no
\* threshold <= m (a threshold that jump crossed) fires on a later call of the
\* same job (here with print_start and print_resume enabled, as by default).
C3_Original ==
  [][(calls' = calls + 1 /\ ret'.cause = "percentage"
      /\ config.report_start /\ config.report_resume)
       => ret'.threshold > (IF ResetBy(status') THEN -1 ELSE crossed)]_vars

\* C3 amended: a percentage report for threshold p marks the percentages
\* <= p and no others (a crossed threshold above p is left for a later call),
\* and p is above every threshold that fired earlier in the job, so no
\* threshold <= p fires later in the job; for thresholds [25,50,75], layer
\* reports off, and the run 10, 26, 40, 80 exactly two progress_reports fire,
\* for 25 at 26% and for 50 at 80%.
C3_CrossedThresholds ==
  /\ [][(calls' = calls + 1 /\ ret'.cause = "percentage")
          => /\ state_manager'.reported_percentages =
                  (IF ResetBy(status') THEN {}
                   ELSE state_manager.reported_percentages)
                  \cup (0 .. ret'.threshold)
             /\ ~ResetBy(status') =>
                  \A q \in DOMAIN fired_pct :
                    fired_pct[q] > 0 => ret'.threshold > q]_vars
  /\ [](( /\ config.report_percentages = <<25, 50, 75>>
          /\ ~config.report_first_layer /\ ~config.report_second_layer
          /\ scen >= 1)
        => /\ scen = 1 => fired_pct = [p \in {25, 50, 75} |-> 0]
           /\ scen = 2 => /\ fired_pct = [p \in {25, 50, 75} |->
                                            IF p = 25 THEN 1 ELSE 0]
                          /\ ret.event = "progress_report"
           /\ scen = 3 => /\ fired_pct = [p \in {25, 50, 75} |->
                                            IF p = 25 THEN 1 ELSE 0]
                          /\ ret.event = NoEvent
           /\ scen = 4 => /\ fired_pct = [p \in {25, 50, 75} |->
                                            IF p = 75 THEN 0 ELSE 1]
                          /\ ret.event = "progress_report"
                          /\ ret.threshold = 50)

\* C3: the run 10, 26, 40, 80 has been observed with thresholds [25,50,75].
C3_Witness ==
  /\ config.report_percentages = <<25, 50, 75>>
  /\ ~config.report_first_layer /\ ~config.report_second_layer
  /\ scen = 4
  /\ status.mc_percent = 80
  /\ ret.threshold = 50

\* C4: within one print job every configured threshold causes at most one
\* progress_report, and so do the first-layer and second-layer conditions,
\* however layer_num and mc_percent jitter.
C4_AtMostOncePerJob ==
  /\ \A p \in DOMAIN fired_pct : fired_pct[p] <= 1
  /\ \A c \in DOMAIN fired_layer : fired_layer[c] <= 1

\* C4: the job reported 75% and the second layer, and a later RUNNING status
\* fell back to layer 1 at 10%.
C4_Witness ==
  /\ 75 \in DOMAIN fired_pct
  /\ fired_pct[75] = 1
  /\ fired_layer["second_layer"] = 1
  /\ status = [gcode_state |-> "RUNNING", layer_num |-> 1, mc_percent |-> 10]
  /\ ret.event = NoEvent

\* C5: with the pause and resume events enabled, RUNNING, PAUSE, RUNNING emits
\* print_pause then print_resume, and the per-job tracking fields after the
\* resume are those from before the pause.
C5_PauseResumeKeepsTracking ==
  (pause.phase = "resumed" /\ config.report_pause /\ config.report_resume) =>
    /\ pause.event = "print_pause"
    /\ ret.event = "print_resume"
    /\ Tracking(state_manager) = pause.tracking

\* C5: a print primed at 80% in layer 3 was paused and has resumed.
C5_Witness ==
  /\ pause.phase = "resumed"
  /\ config.report_pause /\ config.report_resume
  /\ 80 \in state_manager.reported_percentages
  /\ state_manager.reported_first_layer
  /\ state_manager.reported_second_layer

\* C6: after priming a transition event is returned only by a call whose
\* gcode_state differs from that of the call before; RUNNING -> FINISH returns
\* print_finish (when enabled) and a repeated FINISH returns nothing.
C6_TransitionOnlyOnChange ==
  [][(calls' = calls + 1 /\ calls >= 1)
       => /\ ret'.event \in TransitionEvents =>
               status'.gcode_state # status.gcode_state
          /\ (status.gcode_state = "RUNNING" /\ status'.gcode_state = "FINISH"
              /\ config.report_finish) => ret'.event = "print_finish"
          /\ (status.gcode_state = "FINISH" /\ status'.gcode_state = "FINISH")
               => ret'.event = NoEvent]_vars

\* C6: a print seen RUNNING has finished, and print_finish was returned.
C6_Witness ==
  /\ calls = 2
  /\ prime.gcode_state = "RUNNING"
  /\ status.gcode_state = "FINISH"
  /\ ret.event = "print_finish"

\* C7 as stated: when every status has the same gcode_state, only the first
\* call after priming can return an event.
C7_Original ==
  (same_state /\ calls >= 3) => ret.event = NoEvent

\* C7 amended: when every status has the same gcode_state, no transition event
\* is returned; an event is returned only when that state is RUNNING, and it
\* is a progress_report; when every status also repeats the priming status's
\* layer_num and mc_percent, nothing is returned at all.
C7_ConstantState ==
  (same_state /\ calls >= 1) =>
    /\ ret.event \notin TransitionEvents
    /\ ret.event # NoEvent =>
         (prime.gcode_state = "RUNNING" /\ ret.event = "progress_report")
    /\ same_status => ret.event = NoEvent

\* C7: a third RUNNING status in a row returned a progress_report.
C7_Witness ==
  /\ same_state
  /\ calls >= 3
  /\ prime.gcode_state = "RUNNING"
  /\ ret.event = "progress_report"

\* C8: reported_percentages is downward closed from 0 and holds every
\* percentage up to each threshold notified in the current job.
C8_DownwardClosed ==
  /\ \A p \in state_manager.reported_percentages :
       /\ p >= 0
       /\ \A q \in 0 .. p : q \in state_manager.reported_percentages
  /\ \A p \in DOMAIN fired_pct :
       fired_pct[p] > 0 =>
         \A q \in 0 .. p : q \in state_manager.reported_percentages

\* C8: with thresholds configured out of order ([75, 25]), 75 was notified and
\* the percentage then fell back to 10.
C8_Witness ==
  /\ config.report_percentages = <<75, 25>>
  /\ fired_pct[75] = 1
  /\ status.gcode_state = "RUNNING"
  /\ status.mc_percent = 10
  /\ state_manager.reported_percentages = 0 .. 75

\* C9: the tasks the worker has taken are a prefix of the tasks enqueued, and
\* the rest of them is the queue: in order, none twice, none skipped.
C9_FifoDelivery ==
  /\ IsPrefix(delivered, enqueued)
  /\ enqueued = delivered \o task_queue

\* C9: two different tasks have been taken by the worker.
C9_Witness ==
  /\ Len(delivered) = 2
  /\ delivered[1] # delivered[2]

\* C10: the POST attempts for a task go to webhooks 1, 2, ... in configured
\* order, one each; once a rendered send has returned every webhook has had
\* its attempt, whatever the outcomes; the worker never crashes after one.
C10_EveryWebhookAttemptedOnce ==
  /\ Len(attempts) <= config.webhooks
  /\ \A k \in 1 .. Len(attempts) : attempts[k].webhook = k
  /\ worker.pc = "post" => Len(attempts) = worker.i - 1
  /\ (worker.rendered /\ worker.pc # "post") => Len(attempts) = config.webhooks
  /\ worker.pc = "crashed" => attempts = <<>>

\* C10: after an earlier failed POST, the worker has handled a second task,
\* whose first POST failed and whose second was still attempted.
C10_Witness ==
  /\ config.webhooks = 2
  /\ Len(delivered) = 2
  /\ Len(attempts) = 2
  /\ attempts[1].outcome = "error"
  /\ attempts[2].outcome = "ok"
  /\ post_failed
  /\ worker.pc = "loop"

\* a step of the status callback whose status changes the state last seen
ChangeCall ==
  /\ calls' = calls + 1
  /\ state_manager.is_primed
  /\ status'.gcode_state # state_manager.last_gcode_state

\* C13: a call after priming whose gcode_state differs from last_gcode_state
\* returns no progress_report and marks no layer flag and no percentage, also
\* when its own event is switched off.
C13_ProgressSkippedOnChange ==
  [][ChangeCall
       => /\ ret'.event # "progress_report"
          /\ Tracking(state_manager') \in
               {Tracking(state_manager), Tracking(StateManager_init)}]_vars

\* the event the destination state selects, RUNNING telling PAUSE apart
SelectedEvent(last, cur) ==
  CASE cur = "RUNNING" /\ last # "PAUSE" -> "print_start"
    [] cur = "RUNNING" /\ last = "PAUSE" -> "print_resume"
    [] cur = "FINISH" -> "print_finish"
    [] cur = "FAILED" -> "print_failure"
    [] cur = "PAUSE" -> "print_pause"
    [] OTHER -> NoEvent

SwitchOf(event) ==
  CASE event = "print_start" -> config.report_start
    [] event = "print_resume" -> config.report_resume
    [] event = "print_finish" -> config.report_finish
    [] event = "print_failure" -> config.report_failure
    [] event = "print_pause" -> config.report_pause
    [] OTHER -> FALSE

\* C14: on a state change the destination selects the event (RUNNING gives
\* print_start, or print_resume after PAUSE; FINISH, FAILED and PAUSE their
\* own; any other none); it is returned exactly when its switch is on, no
\* other transition event ever is, and last_gcode_state becomes the status's.
C14_EventByDestination ==
  [][ChangeCall
       => LET e == SelectedEvent(state_manager.last_gcode_state,
                                 status'.gcode_state)
          IN /\ (e # NoEvent /\ SwitchOf(e)) => ret'.event = e
             /\ (e = NoEvent \/ ~SwitchOf(e)) => ret'.event \notin TransitionEvents
             /\ e = NoEvent => ret'.event = NoEvent
             /\ state_manager'.last_gcode_state = status'.gcode_state]_vars

\* C14: a paused print has resumed and print_resume was returned, in a
\* configuration that switches print_start off.
C14_Witness ==
  /\ calls = 3
  /\ status.gcode_state = "RUNNING"
  /\ ret.event = "print_resume"
  /\ ~config.report_start

\* C15: the per-job tracking fields are cleared by the calls that see the
\* state change to RUNNING from a state other than PAUSE (whatever the
\* print_start switch; what such a call holds afterwards is only what its own
\* progress check marked), every other call keeps what was marked, and
\* last_gcode_state follows the status.
C15_ClearedOnlyByNewPrint ==
  [][calls' = calls + 1
       => LET old == state_manager
              new == state_manager'
              newprint == /\ old.is_primed
                          /\ status'.gcode_state # old.last_gcode_state
                          /\ status'.gcode_state = "RUNNING"
                          /\ old.last_gcode_state # "PAUSE"
          IN /\ newprint =>
                  /\ new.reported_percentages \subseteq
                       (IF ret'.cause = "percentage"
                        THEN 0 .. ret'.threshold ELSE {})
                  /\ new.reported_first_layer => ret'.cause = "first_layer"
                  /\ new.reported_second_layer => ret'.cause = "second_layer"
             /\ ~newprint =>
                  /\ old.reported_percentages \subseteq new.reported_percentages
                  /\ old.reported_first_layer => new.reported_first_layer
                  /\ old.reported_second_layer => new.reported_second_layer
             /\ new.last_gcode_state = status'.gcode_state]_vars

\* C15: a print primed at 80% in layer 3 went idle and a new print started
\* with print_start switched off: the percentages are cleared.
C15_Witness ==
  /\ prime = [gcode_state |-> "RUNNING", layer_num |-> 3, mc_percent |-> 80]
  /\ new_job
  /\ ~config.report_start
  /\ status.gcode_state = "RUNNING"
  /\ state_manager.reported_percentages = {}
  /\ ~state_manager.reported_second_layer

\* C16: after a priming status PAUSE with layer L and percentage P, the print
\* resuming without a new job, no progress_report is caused by the first
\* layer when L > 1, by the second layer when L > 2, or by a threshold <= P.
C16_PausedAttachNotReplayed ==
  (calls >= 1 /\ prime.gcode_state = "PAUSE" /\ ~new_job) =>
    /\ prime.layer_num > 1 => fired_layer["first_layer"] = 0
    /\ prime.layer_num > 2 => fired_layer["second_layer"] = 0
    /\ \A p \in DOMAIN fired_pct : p <= prime.mc_percent => fired_pct[p] = 0

\* C11: get_frame polls at most wait_seconds times; the poll that ends it
\* returns the frame the most recent callback stored (none older), and the
\* empty frame only on its last poll, no frame being stored since the cache
\* was last cleared.
C11_LatestFrameOrEmpty ==
  [][(worker.pc = "poll" /\ worker' # worker)
       => /\ worker.polls < wait_seconds
          /\ worker'.pc = "poll" => stored = NoFrame
          /\ worker'.pc # "poll" =>
               IF stored = NoFrame
               THEN worker'.frame = NoFrame /\ worker.polls + 1 = wait_seconds
               ELSE worker'.frame = stored]_vars

\* C11: get_frame found the cache empty, polled again, and returned the frame
\* a callback stored in between.
C11_Witness ==
  /\ worker.pc = "send"
  /\ worker.polls >= 1
  /\ worker.frame = 2
  /\ stored = 2

\* C12: once main has left its cleanup, the camera stop, the closing of the
\* print log and stop_watch_client have all been executed, in this order.
C12_CleanupInOrder ==
  main.pc \in {"done", "crashed"} =>
    main.cleanup = <<"camera_manager.stop", "print_logger.stop_logging",
                     "client.stop_watch_client">>

\* C17: whenever the camera stream is not active the cached frame is empty.
C17_IdleCacheEmpty ==
  ~camera_manager._is_active => camera_manager._last_frame = NoFrame

\* C18: no thread is at its call of start_camera_stream or stop_camera_stream
\* while it holds the frame lock.
C18_NoCollaboratorCallUnderLock ==
  /\ ~(lock = "worker" /\ worker.pc \in {"start_call", "stop_call"})
  /\ ~(lock = "main" /\ main.pc = "stop_call")

\* C19: a start_camera_stream that raises never ends the worker thread.
C19_WorkerSurvivesStartFailure ==
  worker.pc # "crashed"

\* C20: no status callback is ended by an exception of the print log.
C20_CallbackNeverAborted ==
  aborted = 0

\* the delivery of the task in hand is over: every webhook was attempted, or
\* the send was skipped (no webhook, or the message did not render)
DeliveryOver ==
  \/ config.webhooks = 0
  \/ ~worker.rendered
  \/ Len(attempts) = config.webhooks

\* C23: the worker enters CameraManager.stop() only for a print_finish or
\* print_failure task whose delivery is over, and when it lets go of such a
\* task the delivery is over and the stream is marked inactive.
C23_StopAfterDelivery ==
  [][/\ (worker'.pc = "stop_lock" /\ worker.pc # "stop_lock")
          => /\ worker.task.event \in {"print_finish", "print_failure"}
             /\ DeliveryOver
     /\ (worker.task.event \in {"print_finish", "print_failure"}
         /\ worker'.task = NoTask)
          => /\ DeliveryOver
             /\ worker.pc \in {"stop_lock", "stop_call"}
             /\ ~camera_manager'._is_active]_vars

\* C23: a print_finish was posted with a frame attached, one POST failing, and
\* the worker, done with the task, has stopped the stream.
C23_Witness ==
  /\ worker.pc = "loop"
  /\ Len(delivered) >= 1
  /\ delivered[Len(delivered)].event = "print_finish"
  /\ Len(attempts) = 1
  /\ attempts[1].attachment
  /\ attempts[1].outcome = "error"
  /\ ~camera_manager._is_active
  /\ ~camera_stream

\* C24: start_camera_stream is called only while the stream is not running,
\* stop_camera_stream only while it is, by the worker or by main, and
\* _is_active is true exactly while the stream runs.
C24_CollaboratorCallsAlternate ==
  /\ worker.pc = "start_call" => ~camera_stream
  /\ worker.pc = "stop_call" => camera_stream
  /\ main.pc = "stop_call" => camera_stream
  /\ camera_manager._is_active = camera_stream

\* C24: main's shutdown stop has run and the worker, which took a task
\* after it, has started the stream again and polls for a frame.
C24_Witness ==
  /\ main.cleanup # <<>>
  /\ worker.pc = "poll"
  /\ camera_manager._is_active
  /\ camera_stream

\* a step of the status callback with the print log enabled
LoggerCall ==
  /\ calls' + aborted' = calls + aborted + 1
  /\ print_logger.enabled

\* C21: with the print log enabled, a RUNNING status received while not
\* logging starts logging with a file open (when the file can be opened); a
\* FINISH or FAILED status received while logging writes exactly one entry
\* and closes the file; a status other than RUNNING received while not
\* logging writes nothing; is_logging is true exactly when a file is open.
C21_LogLifecycle ==
  [][LoggerCall
       => LET g == logged'.gcode_state IN
          /\ (g = "RUNNING" /\ ~print_logger.is_logging /\ ~logged'.open_failed)
               => print_logger'.is_logging /\ print_logger'.log_file
          /\ (g \in {"FINISH", "FAILED"} /\ print_logger.is_logging)
               => /\ logged'.wrote = 1
                  /\ ~print_logger'.is_logging
                  /\ ~print_logger'.log_file
          /\ (g # "RUNNING" /\ ~print_logger.is_logging) => logged'.wrote = 0
          /\ print_logger'.is_logging = print_logger'.log_file]_vars

\* the call is the state machine's first RUNNING status of a print job
FirstOfJob ==
  /\ calls' = calls + 1
  /\ status'.gcode_state = "RUNNING"
  /\ \/ ~state_manager.is_primed
     \/ ResetBy(status')

\* two entries for RUNNING statuses in one file are an interval apart
EntriesSpaced ==
  (/\ logged'.gcode_state = "RUNNING"
   /\ logged'.wrote > 0
   /\ print_logger.is_logging
   /\ logged.entry_time >= 0)
    => now' - logged.entry_time >= log_interval

====
